---- MODULE Spec2Model ----
(***************************************************************************)
(* Model of lambda_function.py: the importance filter, the checkpoint      *)
(* manager, the resumable, time-boxed harvest loop of                      *)
(* fetch_fred_series_metadata and the index builder, run as a chain of     *)
(* invocations against one remote data set and one storage prefix.         *)
(* Spec is the chain; FilterSpec classifies one record; IndexSpec builds   *)
(* the index over stored batches; LiveSpec is the chain with every call    *)
(* of the handler returning.                                               *)
(*                                                                         *)
(* Python strings that are only tested for membership (ids, frequencies)   *)
(* are TLA+ strings.  Strings that are ordered or rewritten (dates,        *)
(* timestamps) are sequences of character codes.  A dict is a function     *)
(* whose DOMAIN is the set of keys that are present.                       *)
(***************************************************************************)
EXTENDS Integers, Sequences, FiniteSets, TLC

VARIABLES
    remote,                 \* the remote source: page index -> page of records
    env,                    \* os.environ of the deployment
    context,                \* the Lambda context the host passes
    event,                  \* the event of the current invocation
    pc,                     \* position of the invocation
    now,                    \* wall clock, in seconds
    tick,                   \* seconds an iteration that processes a page takes
    start_time,
    current_offset,
    total_series_fetched,
    important_series_count,
    batch_number,
    api_calls_count,
    checkpoint,             \* the handler's local of that name, None when unset
    elapsed_seconds,        \* as computed by the last time-box check
    lambda_time_remaining,  \* as computed by the last time-box check
    s3_batches,             \* {prefix}/batches/batch_{n}.json : n -> object
    s3_latest,              \* {prefix}/checkpoint.json : <<>> or <<object>>
    s3_history,             \* {prefix}/checkpoints/checkpoint_{key}.json
    s3_index,               \* {prefix}/series_index.json : <<>> or <<object>>
    result,                 \* what the last finished invocation returned
    invocations,            \* number of invocations started so far
    execution_time,         \* the handler's local of that name
    fetchLog,               \* history: the fetches made over the chain
    writeLog,               \* history: the batch objects written over the chain
    saveLog,                \* history: the checkpoints built by create_checkpoint
    everLatest,             \* history: the objects ever stored at the latest key
    storeFailures,          \* history: checkpoint saves whose storage write failed
    chainClean,             \* history: the chain so far is one of paused
                            \* invocations without fetch or batch-write failure
    indexLog,               \* history: the last call of create_series_index
    series_data,            \* the record under test (importance filter)
    classified,
    verdict

vars == <<remote, env, context, event, pc, now, tick, start_time, current_offset,
          total_series_fetched, important_series_count, batch_number,
          api_calls_count, checkpoint, elapsed_seconds, lambda_time_remaining,
          s3_batches, s3_latest, s3_history, s3_index, result, invocations,
          execution_time, fetchLog, writeLog, saveLog, everLatest, storeFailures, chainClean,
          indexLog, series_data, classified, verdict>>

-----------------------------------------------------------------------------
(* Program constants *)

FRED_API_REQUEST_LIMIT == 1000
LAMBDA_TIMEOUT_BUFFER_MS == 30000
MAX_RUNTIME_SECONDS_BEFORE_CHECKPOINT == 780
API_CALLS_PER_RATE_LIMIT_PAUSE == 10
RATE_LIMIT_PAUSE_SECONDS == 5

HIGH_UPDATE_FREQUENCIES == {"Daily", "Weekly", "Monthly"}

IMPORTANT_SERIES_IDS ==
    {"GDP", "GDPC1", "UNRATE", "CPIAUCSL", "FEDFUNDS", "SP500", "DGS10",
     "PAYEMS", "INDPRO", "PCE", "M2", "HOUST", "RSAFS", "USREC", "DCOILWTICO",
     "GFDEGDQ188S", "T10Y2Y", "USAGDPDEFQISMEI", "UMCSENT", "EXUSEU", "DAAA",
     "DBAA", "PCEPI"}

\* '2023-01-01' as character codes ('0' = 48 .. '9' = 57, '-' = 45)
SERIES_DISCONTINUED_BEFORE_DATE == <<50, 48, 50, 51, 45, 48, 49, 45, 48, 49>>

-----------------------------------------------------------------------------
(* Python primitives *)

\* str.__lt__: lexicographic order by code point; a proper prefix is smaller.
RECURSIVE StrLess(_, _)
StrLess(a, b) ==
    IF b = <<>> THEN FALSE
    ELSE IF a = <<>> THEN TRUE
    ELSE IF Head(a) < Head(b) THEN TRUE
    ELSE IF Head(a) > Head(b) THEN FALSE
    ELSE StrLess(Tail(a), Tail(b))

\* truth value of a str: the empty string is falsy.
StrTruthy(s) == s # <<>>

\* dict.get(key, default)
Get(d, key, default) == IF key \in DOMAIN d THEN d[key] ELSE default

-----------------------------------------------------------------------------
(* is_important_series *)

\* observation_end and observation_end < SERIES_DISCONTINUED_BEFORE_DATE
\* (.get without default yields None, which is falsy, when the key is absent)
IsDiscontinued(sd) ==
    /\ "observation_end" \in DOMAIN sd
    /\ StrTruthy(sd.observation_end)
    /\ StrLess(sd.observation_end, SERIES_DISCONTINUED_BEFORE_DATE)

\* variant: the threshold itself counts as popular
IsPopular_AtLeast(sd) == Get(sd, "popularity", 0) >= 50

IsPopular(sd) == Get(sd, "popularity", 0) > 50

\* frequency in HIGH_UPDATE_FREQUENCIES (None is in no list)
HasHighFrequency(sd) ==
    "frequency" \in DOMAIN sd /\ sd.frequency \in HIGH_UPDATE_FREQUENCIES

HasImportantId(sd) ==
    "id" \in DOMAIN sd /\ sd.id \in IMPORTANT_SERIES_IDS

\* variant: the discontinuation test comes after the positive tests
is_important_series_VetoLast(sd) ==
    IF IsPopular(sd) THEN TRUE
    ELSE IF HasHighFrequency(sd) THEN TRUE
    ELSE IF HasImportantId(sd) THEN TRUE
    ELSE FALSE

is_important_series(sd) ==
    IF IsDiscontinued(sd) THEN FALSE
    ELSE IF IsPopular(sd) THEN TRUE
    ELSE IF HasHighFrequency(sd) THEN TRUE
    ELSE IF HasImportantId(sd) THEN TRUE
    ELSE FALSE

-----------------------------------------------------------------------------
(* Bounds of the model *)

MaxPages == 2         \* page indexes 0 .. MaxPages-1 may hold records
MaxInvocations == 2   \* invocations per behaviour
MaxStoreFailures == 1 \* checkpoint saves per behaviour whose storage write fails

-----------------------------------------------------------------------------
(* The remote source and the host *)

D_2024_01_01 == <<50, 48, 50, 52, 45, 48, 49, 45, 48, 49>>
D_2020_01_01 == <<50, 48, 50, 48, 45, 48, 49, 45, 48, 49>>

RecGDP == [id |-> "GDP", popularity |-> 10, observation_end |-> D_2024_01_01]
RecX1  == [id |-> "X1", popularity |-> 60, observation_end |-> D_2024_01_01]
RecX2  == [id |-> "X2", popularity |-> 5, observation_end |-> D_2020_01_01]

\* the pages a remote page index may hold: three records of which two pass
\* the filter (by curated id, by popularity), one record that does not pass,
\* no record at all
PageSet == {<<RecGDP, RecX1, RecX2>>, <<RecX2>>, <<>>}

RemoteSet == [0 .. MaxPages - 1 -> PageSet]

\* a remote may also answer every offset past its listed pages with one and
\* the same page: it then holds that page under the index Beyond
Beyond == -1

\* remotes that never return an empty page
EndlessRemoteSet ==
    {[i \in {Beyond} \cup (0 .. MaxPages - 1) |-> page] : page \in PageSet \ {<<>>}}

\* response_data.get('seriess', []) of the request at `offset`: the remote
\* holds the page of index i at offset i * limit and nothing elsewhere
PageAt(rem, offset) ==
    IF /\ offset % FRED_API_REQUEST_LIMIT = 0
       /\ (offset \div FRED_API_REQUEST_LIMIT) \in DOMAIN rem
    THEN rem[offset \div FRED_API_REQUEST_LIMIT]
    ELSE IF Beyond \in DOMAIN rem THEN rem[Beyond] ELSE <<>>

\* os.environ: the three variables set, or one of them absent or empty
EnvOk == [FRED_API_KEY |-> "key", S3_BUCKET_NAME |-> "bucket", S3_PREFIX |-> "prefix"]
EnvSet == {EnvOk,
           [S3_BUCKET_NAME |-> "bucket", S3_PREFIX |-> "prefix"],
           [FRED_API_KEY |-> "key", S3_BUCKET_NAME |-> "", S3_PREFIX |-> "prefix"],
           [FRED_API_KEY |-> "key", S3_BUCKET_NAME |-> "bucket"]}

\* the context either has get_remaining_time_in_millis or has not
ContextSet == {[has_remaining_time |-> TRUE], [has_remaining_time |-> FALSE]}

\* what get_remaining_time_in_millis may answer: just below and at the buffer
RemainingSet == {LAMBDA_TIMEOUT_BUFFER_MS - 1, LAMBDA_TIMEOUT_BUFFER_MS}

\* seconds a loop iteration that processes a page may take: two iterations
\* bring the elapsed time exactly to the ceiling of 780 s, or over it
TickSet == {390, 391}

\* outcomes of the two put_object calls of create_checkpoint
StoreOutcomes ==
    IF storeFailures < MaxStoreFailures
    THEN {"ok", "latest_fails", "history_fails"}
    ELSE {"ok"}

None == <<>>
EmptyEvent == [k \in {} |-> k]

\* a record of the remote data of an earlier day, as popular as RecX1
RecOld == [id |-> "UNRATE", popularity |-> 60, observation_end |-> D_2024_01_01]

-----------------------------------------------------------------------------
(* create_checkpoint *)

Digit(n) == 48 + (n % 10)
TwoDigits(n) == <<Digit(n \div 10), Digit(n)>>

\* datetime.isoformat() of the clock value t, time-of-day part 'HH:MM:SS'
IsoFormat(t) ==
    TwoDigits(t \div 3600) \o <<58>> \o TwoDigits((t \div 60) % 60)
        \o <<58>> \o TwoDigits(t % 60)

\* str.replace(old, new) for single characters
RECURSIVE StrReplace(_, _, _)
StrReplace(s, old, new) ==
    IF s = <<>> THEN <<>>
    ELSE <<IF Head(s) = old THEN new ELSE Head(s)>> \o StrReplace(Tail(s), old, new)

\* the variable part of {prefix}/checkpoints/checkpoint_{...}.json
HistoryKey(timestamp) == StrReplace(timestamp, 58, 45)

\* variant: a checkpoint that carries an error is marked complete
NewCheckpoint_ErrorCompletes(t, offset, total_fetched, important_count, bn, execution_complete, error) ==
    LET base == [timestamp |-> IsoFormat(t),
                 offset |-> offset,
                 total_fetched |-> total_fetched,
                 important_count |-> important_count,
                 batch_number |-> bn,
                 execution_complete |-> execution_complete \/ error # None]
    IN  IF error # None THEN base @@ [error |-> error] ELSE base

\* the dict built by create_checkpoint called at clock value t;
\* 'error' is set only when the argument is truthy
NewCheckpoint(t, offset, total_fetched, important_count, bn, execution_complete, error) ==
    LET base == [timestamp |-> IsoFormat(t),
                 offset |-> offset,
                 total_fetched |-> total_fetched,
                 important_count |-> important_count,
                 batch_number |-> bn,
                 execution_complete |-> execution_complete]
    IN  IF error # None THEN base @@ [error |-> error] ELSE base

\* the object at the latest key after the try block of create_checkpoint
LatestAfterSave(cp, outcome) ==
    IF outcome = "latest_fails" THEN s3_latest ELSE <<cp>>

\* variant: the history copy is written whatever became of the latest copy
HistoryAfterSave_Always(cp, outcome) ==
    IF outcome # "history_fails"
    THEN (HistoryKey(cp.timestamp) :> cp) @@ s3_history
    ELSE s3_history

\* the history objects after the try block: the second put_object runs only
\* when the first one did not raise
HistoryAfterSave(cp, outcome) ==
    IF outcome = "ok"
    THEN (HistoryKey(cp.timestamp) :> cp) @@ s3_history
    ELSE s3_history

\* variant: the storage exception is not caught
CheckpointRaises_Propagates(outcome) == outcome # "ok"

\* whether create_checkpoint lets the storage exception out (it logs it)
CheckpointRaises(outcome) == FALSE

\* the storage effects of create_checkpoint building cp; the clock moves on
SaveCheckpoint(cp, t, outcome) ==
    /\ s3_latest' = LatestAfterSave(cp, outcome)
    /\ s3_history' = HistoryAfterSave(cp, outcome)
    /\ everLatest' = IF outcome = "latest_fails" THEN everLatest
                     ELSE everLatest \cup {cp}
    /\ saveLog' = Append(saveLog, cp)
    /\ storeFailures' = IF outcome = "ok" THEN storeFailures ELSE storeFailures + 1
    /\ now' = t + 1

\* what the caller of fetch_fred_series_metadata sees when an exception
\* leaves the handler
Unhandled == [raised |-> TRUE]

\* what the storage prefix holds before the first invocation: nothing, or
\* the objects of an earlier logical run that completed the day before over
\* a remote whose only page held RecOld: batch 0, the final checkpoint (at
\* 23:59:58) and the index
NoEarlierRun == [batches |-> EmptyEvent, index |-> None, saves |-> <<>>]

EarlierRun ==
    [batches |-> 0 :> [count |-> 1, series |-> <<RecOld>>],
     index |-> <<[count |-> 1,
                  last_updated |-> IsoFormat(86399),
                  series |-> <<[id |-> "UNRATE", title |-> "", frequency |-> "",
                                units |-> "", observation_start |-> <<>>,
                                observation_end |-> D_2024_01_01,
                                last_updated |-> <<>>, popularity |-> 60]>>]>>,
     saves |-> <<NewCheckpoint(86398, 1000, 1, 1, 1, TRUE, None)>>]

EarlierSet == {NoEarlierRun, EarlierRun}

-----------------------------------------------------------------------------
(* fetch_fred_series_metadata: configuration and resumption *)

RequiredVars == <<"FRED_API_KEY", "S3_BUCKET_NAME", "S3_PREFIX">>

\* variant: only an absent variable is refused, an empty one is accepted
EnvMissing_AbsentOnly(e, var_name) == var_name \notin DOMAIN e

\* get_env_variable raises when os.environ.get(var_name) is falsy
EnvMissing(e, var_name) == var_name \notin DOMAIN e \/ e[var_name] = ""

ConfigOk(e) == \A i \in 1 .. Len(RequiredVars) : ~EnvMissing(e, RequiredVars[i])

\* the first variable whose lookup raises
FirstMissing(e) ==
    RequiredVars[CHOOSE i \in 1 .. Len(RequiredVars) :
                    /\ EnvMissing(e, RequiredVars[i])
                    /\ \A j \in 1 .. i - 1 : ~EnvMissing(e, RequiredVars[j])]

ConfigErrorResult(e) ==
    [statusCode |-> 500,
     body |-> [error |-> [text |-> "Environment variable is required.",
                          var_name |-> FirstMissing(e)]]]

\* isinstance(event, dict) and event.get('checkpoint')
IsContinuation(ev) == "checkpoint" \in DOMAIN ev /\ ev.checkpoint # EmptyEvent

\* variant: the event's checkpoint is not read
ResumeField_Restart(ev, field) == 0

\* checkpoint.get(field, 0) on a continuation, the initial 0 otherwise
ResumeField(ev, field) ==
    IF IsContinuation(ev) THEN Get(ev.checkpoint, field, 0) ELSE 0

\* the caller of the chain: the checkpoint of the previous result, when that
\* result carries one, is the input of the next invocation; a run that
\* completed is not invoked again
CallerInvokes ==
    ~("checkpoint" \in DOMAIN result /\ result.checkpoint.execution_complete)

NextEvent ==
    IF "checkpoint" \in DOMAIN result
    THEN [checkpoint |-> result.checkpoint]
    ELSE EmptyEvent

-----------------------------------------------------------------------------
(* fetch_fred_series_metadata: the results *)

PausedMessage == "Execution paused and checkpointed due to approaching Lambda timeout"
CompletedMessage == "Successfully completed FRED series metadata collection"

PausedResult(cp) ==
    [statusCode |-> 200,
     body |-> [message |-> PausedMessage, checkpoint |-> cp],
     checkpoint |-> cp]

\* variant: the cause is left out of the message
ErrorMsg_NoCause(bn, cause) ==
    [text |-> "Error in batch", batch_number |-> bn, cause |-> ""]

\* f"Error in batch {batch_number}: {str(e)}"
ErrorMsg(bn, cause) ==
    [text |-> "Error in batch", batch_number |-> bn, cause |-> cause]

\* variant: the error result does not carry the checkpoint
FailedResult_NoCheckpoint(error_msg, cp) ==
    [statusCode |-> 500, body |-> [error |-> error_msg]]

FailedResult(error_msg, cp) ==
    [statusCode |-> 500,
     body |-> [error |-> error_msg, checkpoint |-> cp],
     checkpoint |-> cp]

CompletedResult(total, important, seconds, cp) ==
    [statusCode |-> 200,
     body |-> [message |-> CompletedMessage,
               total_series_processed |-> total,
               important_series_saved |-> important,
               execution_time_seconds |-> seconds,
               checkpoint |-> cp],
     checkpoint |-> cp]

-----------------------------------------------------------------------------
(* fetch_fred_series_metadata: the loop's tests and updates *)

\* what the context answers at a time-box check: None without the attribute
RemainingChoices ==
    IF context.has_remaining_time THEN {<<r>> : r \in RemainingSet} ELSE {None}

\* variant: the elapsed time is not looked at
TimeBoxExpired_SignalOnly(remaining, elapsed) ==
    remaining # None /\ remaining[1] < LAMBDA_TIMEOUT_BUFFER_MS

\* variant: both comparisons include the limit
TimeBoxExpired_Inclusive(remaining, elapsed) ==
    \/ remaining # None /\ remaining[1] <= LAMBDA_TIMEOUT_BUFFER_MS
    \/ elapsed >= MAX_RUNTIME_SECONDS_BEFORE_CHECKPOINT

TimeBoxExpired(remaining, elapsed) ==
    \/ remaining # None /\ remaining[1] < LAMBDA_TIMEOUT_BUFFER_MS
    \/ elapsed > MAX_RUNTIME_SECONDS_BEFORE_CHECKPOINT

\* variant: an empty page is not recognised as the end
IsLastPage_Never(batch_count) == batch_count < 0

\* batch_count == 0
IsLastPage(batch_count) == batch_count = 0

\* the records of a page that pass the filter, in page order
FilterImportant(series_batch) == SelectSeq(series_batch, is_important_series)

\* the object stored at batches/batch_{n}.json
BatchObject(batch_important_series) ==
    [count |-> Len(batch_important_series), series |-> batch_important_series]

\* variant: the offset is not advanced
NextOffset_Stay(offset, batch_count) == offset

\* variant: the offset advances by the number of records received
NextOffset_ByCount(offset, batch_count) == offset + batch_count

\* current_offset += FRED_API_REQUEST_LIMIT
NextOffset(offset, batch_count) == offset + FRED_API_REQUEST_LIMIT

\* time.sleep every API_CALLS_PER_RATE_LIMIT_PAUSE calls
RateLimitPause(calls) ==
    IF calls % API_CALLS_PER_RATE_LIMIT_PAUSE = 0 THEN RATE_LIMIT_PAUSE_SECONDS ELSE 0

-----------------------------------------------------------------------------
(* create_series_index *)

\* all_series: the 'series' of the batches 0 .. total_batches-1 that can be
\* read, in increasing batch number; a missing or unreadable batch is skipped
\* variant: total_batches is read as an inclusive upper bound
RECURSIVE ReadBatches_Inclusive(_, _, _)
ReadBatches_Inclusive(batch_num, total_batches, unreadable) ==
    IF batch_num > total_batches THEN <<>>
    ELSE (IF batch_num \in DOMAIN s3_batches /\ batch_num \notin unreadable
          THEN Get(s3_batches[batch_num], "series", <<>>)
          ELSE <<>>)
         \o ReadBatches_Inclusive(batch_num + 1, total_batches, unreadable)

RECURSIVE ReadBatches(_, _, _)
ReadBatches(batch_num, total_batches, unreadable) ==
    IF batch_num >= total_batches THEN <<>>
    ELSE (IF batch_num \in DOMAIN s3_batches /\ batch_num \notin unreadable
          THEN Get(s3_batches[batch_num], "series", <<>>)
          ELSE <<>>)
         \o ReadBatches(batch_num + 1, total_batches, unreadable)

IndexEntry(series) ==
    [id |-> Get(series, "id", ""),
     title |-> Get(series, "title", ""),
     frequency |-> Get(series, "frequency", ""),
     units |-> Get(series, "units", ""),
     observation_start |-> Get(series, "observation_start", <<>>),
     observation_end |-> Get(series, "observation_end", <<>>),
     last_updated |-> Get(series, "last_updated", <<>>),
     popularity |-> Get(series, "popularity", 0)]

RECURSIVE ProjectAll(_)
ProjectAll(all_series) ==
    IF all_series = <<>> THEN <<>>
    ELSE <<IndexEntry(Head(all_series))>> \o ProjectAll(Tail(all_series))

\* variant: a record goes in front of the records of equal popularity
RECURSIVE InsertByPopularity_Unstable(_, _)
InsertByPopularity_Unstable(x, sorted) ==
    IF sorted = <<>> THEN <<x>>
    ELSE IF Get(Head(sorted), "popularity", 0) > Get(x, "popularity", 0)
         THEN <<Head(sorted)>> \o InsertByPopularity_Unstable(x, Tail(sorted))
         ELSE <<x>> \o sorted

\* list.sort(key=popularity, reverse=True): stable, equal keys keep their order
RECURSIVE InsertByPopularity(_, _)
InsertByPopularity(x, sorted) ==
    IF sorted = <<>> THEN <<x>>
    ELSE IF Get(Head(sorted), "popularity", 0) >= Get(x, "popularity", 0)
         THEN <<Head(sorted)>> \o InsertByPopularity(x, Tail(sorted))
         ELSE <<x>> \o sorted

RECURSIVE SortByPopularity(_)
SortByPopularity(series_index) ==
    IF series_index = <<>> THEN <<>>
    ELSE InsertByPopularity(series_index[Len(series_index)],
                            SortByPopularity(SubSeq(series_index, 1, Len(series_index) - 1)))

IndexObject(total_batches, unreadable, t) ==
    LET series_index == SortByPopularity(ProjectAll(ReadBatches(0, total_batches, unreadable)))
    IN  [count |-> Len(series_index),
         last_updated |-> IsoFormat(t),
         series |-> series_index]

\* range(total_batches): the batch numbers the reading loop goes through
BatchNumbers(total_batches) == [i \in 1 .. total_batches |-> i - 1]

\* the object at series_index.json after create_series_index: the new index
\* when store_data_in_s3 succeeded, what was there before when it raised
IndexAfterBuild(total_batches, unreadable, written, t) ==
    IF written THEN <<IndexObject(total_batches, unreadable, t)>> ELSE s3_index

\* variant: the handler does not catch what create_series_index raises
IndexBuildRaises_Propagates(written) == ~written

\* whether an exception of create_series_index leaves the handler (the
\* handler logs it)
IndexBuildRaises(written) == FALSE

-----------------------------------------------------------------------------
(* The state machine *)

LoopLocals == <<current_offset, total_series_fetched, important_series_count,
                batch_number, api_calls_count>>
Storage == <<s3_batches, s3_latest, s3_history, s3_index>>
FilterVars == <<series_data, classified, verdict>>

\* the state before the first invocation, for one remote, deployment and host
HarvestInit(r, e, c, t, earlier) ==
    /\ remote = r
    /\ env = e
    /\ context = c
    /\ tick = t
    /\ event = EmptyEvent
    /\ pc = "idle"
    /\ now = 0
    /\ start_time = 0
    /\ current_offset = 0
    /\ total_series_fetched = 0
    /\ important_series_count = 0
    /\ batch_number = 0
    /\ api_calls_count = 0
    /\ checkpoint = None
    /\ elapsed_seconds = 0
    /\ lambda_time_remaining = None
    /\ execution_time = 0
    /\ s3_batches = earlier.batches
    /\ s3_latest = earlier.saves
    /\ s3_history = [k \in {HistoryKey(earlier.saves[i].timestamp) :
                                i \in 1 .. Len(earlier.saves)} |->
                        CHOOSE cp \in {earlier.saves[i] : i \in 1 .. Len(earlier.saves)} :
                            HistoryKey(cp.timestamp) = k]
    /\ s3_index = earlier.index
    /\ result = None
    /\ invocations = 0
    /\ fetchLog = <<>>
    /\ writeLog = <<>>
    /\ saveLog = earlier.saves
    /\ everLatest = {earlier.saves[i] : i \in 1 .. Len(earlier.saves)}
    /\ storeFailures = 0
    /\ chainClean = TRUE
    /\ indexLog = None

Init ==
    /\ \E r \in RemoteSet, e \in EnvSet, c \in ContextSet, t \in TickSet,
          earlier \in EarlierSet :
          HarvestInit(r, e, c, t, earlier)
    /\ series_data = EmptyEvent
    /\ classified = FALSE
    /\ verdict = FALSE

\* lines 233-242: a required variable is missing, the handler returns at once
InvokeConfigError ==
    /\ pc = "idle"
    /\ invocations < MaxInvocations
    /\ CallerInvokes
    /\ ~ConfigOk(env)
    /\ result' = ConfigErrorResult(env)
    /\ event' = NextEvent
    /\ invocations' = invocations + 1
    /\ UNCHANGED <<remote, tick, env, context, pc, now, start_time, LoopLocals, checkpoint,
                   elapsed_seconds, lambda_time_remaining, execution_time, Storage,
                   fetchLog, writeLog, saveLog, everLatest, storeFailures, chainClean, indexLog, FilterVars>>

\* lines 233-264: configuration read, tracking variables initialised or
\* restored from the event's checkpoint
Invoke ==
    /\ pc = "idle"
    /\ invocations < MaxInvocations
    /\ CallerInvokes
    /\ ConfigOk(env)
    /\ LET ev == NextEvent IN
        /\ event' = ev
        /\ checkpoint' = IF IsContinuation(ev) THEN ev.checkpoint ELSE None
        /\ current_offset' = ResumeField(ev, "offset")
        /\ total_series_fetched' = ResumeField(ev, "total_fetched")
        /\ important_series_count' = ResumeField(ev, "important_count")
        /\ batch_number' = ResumeField(ev, "batch_number")
        /\ fetchLog' = IF IsContinuation(ev) THEN fetchLog ELSE <<>>
        /\ writeLog' = IF IsContinuation(ev) THEN writeLog ELSE <<>>
        /\ chainClean' = IF IsContinuation(ev)
                         THEN chainClean /\ result.statusCode = 200
                                         /\ ~result.checkpoint.execution_complete
                         ELSE TRUE
    /\ start_time' = now
    /\ api_calls_count' = 0
    /\ elapsed_seconds' = 0
    /\ lambda_time_remaining' = None
    /\ result' = None
    /\ pc' = "loop"
    /\ invocations' = invocations + 1
    /\ UNCHANGED <<remote, tick, env, context, now, execution_time, Storage, saveLog,
                   everLatest, storeFailures, indexLog, FilterVars>>

\* lines 268-296: the time-box check fires; checkpoint and paused result
PauseForTimeout ==
    /\ pc = "loop"
    /\ \E remaining \in RemainingChoices, outcome \in StoreOutcomes :
        /\ TimeBoxExpired(remaining, now - start_time)
        /\ elapsed_seconds' = now - start_time
        /\ lambda_time_remaining' = remaining
        /\ LET cp == NewCheckpoint(now, current_offset, total_series_fetched,
                                   important_series_count, batch_number, FALSE, None)
           IN  /\ SaveCheckpoint(cp, now, outcome)
               /\ checkpoint' = cp
               /\ result' = IF CheckpointRaises(outcome) THEN Unhandled
                            ELSE PausedResult(cp)
    /\ pc' = "idle"
    /\ UNCHANGED <<remote, tick, env, context, event, start_time, LoopLocals, execution_time,
                   s3_batches, s3_index, invocations, fetchLog, writeLog, chainClean,
                   indexLog, FilterVars>>

\* lines 298-312, 355-377: make_fred_api_request raises
FetchFails ==
    /\ pc = "loop"
    /\ \E remaining \in RemainingChoices, outcome \in StoreOutcomes :
        /\ ~TimeBoxExpired(remaining, now - start_time)
        /\ elapsed_seconds' = now - start_time
        /\ lambda_time_remaining' = remaining
        /\ LET error_msg == ErrorMsg(batch_number, "request failed")
               cp == NewCheckpoint(now + 1, current_offset, total_series_fetched,
                                   important_series_count, batch_number, FALSE, error_msg)
           IN  /\ SaveCheckpoint(cp, now + 1, outcome)
               /\ checkpoint' = cp
               /\ result' = IF CheckpointRaises(outcome) THEN Unhandled
                            ELSE FailedResult(error_msg, cp)
    /\ api_calls_count' = api_calls_count + 1
    /\ fetchLog' = Append(fetchLog, [offset |-> current_offset, batch_number |-> batch_number])
    /\ chainClean' = FALSE
    /\ pc' = "idle"
    /\ UNCHANGED <<remote, tick, env, context, event, start_time, current_offset,
                   total_series_fetched, important_series_count, batch_number,
                   execution_time, s3_batches, s3_index, invocations, writeLog, indexLog, FilterVars>>

\* lines 298-320: the page has no record, the loop ends
EmptyPage ==
    /\ pc = "loop"
    /\ \E remaining \in RemainingChoices :
        /\ ~TimeBoxExpired(remaining, now - start_time)
        /\ elapsed_seconds' = now - start_time
        /\ lambda_time_remaining' = remaining
    /\ IsLastPage(Len(PageAt(remote, current_offset)))
    /\ api_calls_count' = api_calls_count + 1
    /\ fetchLog' = Append(fetchLog, [offset |-> current_offset, batch_number |-> batch_number])
    /\ now' = now + 1
    /\ pc' = "finalize"
    /\ UNCHANGED <<remote, tick, env, context, event, start_time, current_offset,
                   total_series_fetched, important_series_count, batch_number,
                   checkpoint, execution_time, Storage, result, invocations, writeLog,
                   saveLog, everLatest, storeFailures, chainClean, indexLog, FilterVars>>

\* lines 298-353: a page with records is filtered, stored and counted
ProcessPage ==
    /\ pc = "loop"
    /\ \E remaining \in RemainingChoices :
        /\ ~TimeBoxExpired(remaining, now - start_time)
        /\ elapsed_seconds' = now - start_time
        /\ lambda_time_remaining' = remaining
    /\ LET series_batch == PageAt(remote, current_offset)
           batch_count == Len(series_batch)
           batch_important_series == FilterImportant(series_batch)
       IN  /\ ~IsLastPage(batch_count)
           /\ important_series_count' = important_series_count + Len(batch_important_series)
           /\ IF batch_important_series # <<>>
              THEN /\ s3_batches' = (batch_number :> BatchObject(batch_important_series))
                                        @@ s3_batches
                   /\ writeLog' = Append(writeLog,
                                         [batch_number |-> batch_number,
                                          data |-> BatchObject(batch_important_series)])
              ELSE UNCHANGED <<s3_batches, writeLog>>
           /\ total_series_fetched' = total_series_fetched + batch_count
           /\ current_offset' = NextOffset(current_offset, batch_count)
           /\ batch_number' = batch_number + 1
    /\ api_calls_count' = api_calls_count + 1
    /\ fetchLog' = Append(fetchLog, [offset |-> current_offset, batch_number |-> batch_number])
    /\ now' = now + tick + RateLimitPause(api_calls_count + 1)
    /\ pc' = "loop"
    /\ UNCHANGED <<remote, tick, env, context, event, start_time, checkpoint, execution_time,
                   s3_latest, s3_history, s3_index, result, invocations, saveLog,
                   everLatest, storeFailures, chainClean, indexLog, FilterVars>>

\* lines 322-343, 355-377: store_data_in_s3 of the batch raises, after
\* important_series_count was increased and before the other counters are
StoreBatchFails ==
    /\ pc = "loop"
    /\ \E remaining \in RemainingChoices, outcome \in StoreOutcomes :
        /\ ~TimeBoxExpired(remaining, now - start_time)
        /\ elapsed_seconds' = now - start_time
        /\ lambda_time_remaining' = remaining
        /\ LET series_batch == PageAt(remote, current_offset)
               batch_important_series == FilterImportant(series_batch)
               error_msg == ErrorMsg(batch_number, "put_object failed")
               cp == NewCheckpoint(now + 1, current_offset, total_series_fetched,
                                   important_series_count + Len(batch_important_series),
                                   batch_number, FALSE, error_msg)
           IN  /\ ~IsLastPage(Len(series_batch))
               /\ batch_important_series # <<>>
               /\ important_series_count' =
                      important_series_count + Len(batch_important_series)
               /\ SaveCheckpoint(cp, now + 1, outcome)
               /\ checkpoint' = cp
               /\ result' = IF CheckpointRaises(outcome) THEN Unhandled
                            ELSE FailedResult(error_msg, cp)
    /\ api_calls_count' = api_calls_count + 1
    /\ fetchLog' = Append(fetchLog, [offset |-> current_offset, batch_number |-> batch_number])
    /\ chainClean' = FALSE
    /\ pc' = "idle"
    /\ UNCHANGED <<remote, tick, env, context, event, start_time, current_offset,
                   total_series_fetched, batch_number, execution_time, s3_batches,
                   s3_index, invocations, writeLog, indexLog, FilterVars>>

\* lines 379-391: the final checkpoint
Finalize ==
    /\ pc = "finalize"
    /\ execution_time' = now - start_time
    /\ \E outcome \in StoreOutcomes :
        LET cp == NewCheckpoint(now, current_offset, total_series_fetched,
                                important_series_count, batch_number, TRUE, None)
        IN  /\ SaveCheckpoint(cp, now, outcome)
            /\ checkpoint' = cp
            /\ IF CheckpointRaises(outcome)
               THEN result' = Unhandled /\ pc' = "idle"
               ELSE result' = result /\ pc' = "index"
    /\ UNCHANGED <<remote, tick, env, context, event, start_time, LoopLocals, elapsed_seconds,
                   lambda_time_remaining, s3_batches, s3_index, invocations, fetchLog,
                   writeLog, chainClean, indexLog, FilterVars>>

\* lines 393-409: the index is built, or fails to be, and the handler returns
BuildIndex ==
    /\ pc = "index"
    /\ LET total_batches == batch_number IN
       \E unreadable \in SUBSET (DOMAIN s3_batches \cap 0 .. total_batches - 1),
          written \in BOOLEAN :
        /\ s3_index' = IndexAfterBuild(total_batches, unreadable, written, now)
        /\ indexLog' = <<[total_batches |-> total_batches,
                          read |-> BatchNumbers(total_batches),
                          skipped |-> unreadable
                              \cup ((0 .. total_batches - 1) \ DOMAIN s3_batches),
                          written |-> written]>>
        /\ result' = IF IndexBuildRaises(written) THEN Unhandled
                     ELSE CompletedResult(total_series_fetched, important_series_count,
                                          execution_time, checkpoint)
    /\ now' = now + 1
    /\ pc' = "idle"
    /\ UNCHANGED <<remote, tick, env, context, event, start_time, LoopLocals, checkpoint,
                   elapsed_seconds, lambda_time_remaining, execution_time, s3_batches,
                   s3_latest, s3_history, invocations, fetchLog, writeLog, saveLog,
                   everLatest, storeFailures, chainClean, FilterVars>>

Next ==
    \/ InvokeConfigError
    \/ Invoke
    \/ PauseForTimeout
    \/ FetchFails
    \/ EmptyPage
    \/ ProcessPage
    \/ StoreBatchFails
    \/ Finalize
    \/ BuildIndex

Spec == Init /\ [][Next]_vars

-----------------------------------------------------------------------------
(* The harvest under the assumption that every call returns: a step of a    *)
(* running invocation is eventually taken.  The remote is one that never    *)
(* returns an empty page, or one page of records followed by empty pages.   *)

LiveRemoteSet ==
    EndlessRemoteSet
        \cup {[i \in 0 .. MaxPages - 1 |->
                  IF i = 0 THEN <<RecGDP, RecX1, RecX2>> ELSE <<>>]}

LiveInit ==
    /\ \E r \in LiveRemoteSet, e \in EnvSet, c \in ContextSet, t \in TickSet :
          HarvestInit(r, e, c, t, NoEarlierRun)
    /\ series_data = EmptyEvent
    /\ classified = FALSE
    /\ verdict = FALSE

\* a step of the handler between its invocation and its return
HandlerStep ==
    \/ PauseForTimeout
    \/ FetchFails
    \/ EmptyPage
    \/ ProcessPage
    \/ StoreBatchFails
    \/ Finalize
    \/ BuildIndex

LiveSpec == LiveInit /\ [][Next]_vars /\ WF_vars(HandlerStep)

-----------------------------------------------------------------------------
(* The importance filter on its own: one record, classified once *)

\* a field that is absent (<<>>) or present with value c[1]
OptField(name, c) == IF c = <<>> THEN EmptyEvent ELSE (name :> c[1])

D_2022_12_31 == <<50, 48, 50, 50, 45, 49, 50, 45, 51, 49>>
D_2023 == <<50, 48, 50, 51>>

\* absent, '', '2020-01-01', '2022-12-31', '2023' (a proper prefix of the
\* cutoff), the cutoff itself, '2024-01-01'
ObservationEndChoices ==
    {<<>>, <<<<>>>>, <<D_2020_01_01>>, <<D_2022_12_31>>, <<D_2023>>,
     <<SERIES_DISCONTINUED_BEFORE_DATE>>, <<D_2024_01_01>>}
PopularityChoices == {<<>>, <<0>>, <<50>>, <<51>>, <<100>>}
FrequencyChoices == {<<>>, <<"Daily">>, <<"Weekly">>, <<"Monthly">>, <<"Annual">>}
IdChoices == {<<>>, <<"GDP">>, <<"PCEPI">>, <<"X1">>}

RecordSpace ==
    {OptField("id", i) @@ OptField("popularity", p) @@ OptField("frequency", f)
        @@ OptField("observation_end", o) :
        i \in IdChoices, p \in PopularityChoices, f \in FrequencyChoices,
        o \in ObservationEndChoices}

FilterInit ==
    /\ HarvestInit([i \in 0 .. MaxPages - 1 |-> <<>>], EnvOk,
                   [has_remaining_time |-> FALSE], 390, NoEarlierRun)
    /\ series_data \in RecordSpace
    /\ classified = FALSE
    /\ verdict = FALSE

Classify ==
    /\ ~classified
    /\ classified' = TRUE
    /\ verdict' = is_important_series(series_data)
    /\ UNCHANGED <<remote, env, context, event, pc, now, tick, start_time, LoopLocals,
                   checkpoint, elapsed_seconds, lambda_time_remaining, execution_time,
                   Storage, result, invocations, fetchLog, writeLog, saveLog,
                   everLatest, storeFailures, chainClean, indexLog, series_data>>

FilterNext == Classify

FilterSpec == FilterInit /\ [][FilterNext]_vars

-----------------------------------------------------------------------------
(* The index builder on its own: the handler has saved its final checkpoint *)
(* and calls create_series_index over whatever the prefix holds             *)

RecA == [id |-> "A", popularity |-> 60]
RecB == [id |-> "B", popularity |-> 60]
RecC == [id |-> "C", frequency |-> "Daily"]
RecD == [id |-> "D", popularity |-> 0, frequency |-> "Monthly"]

\* the 'series' a stored batch may hold (every record passes the filter);
\* <<>> stands for a batch number without object
StoredSeriesSet ==
    {<<>>, <<RecA, RecA>>, <<RecA, RecB>>, <<RecB, RecA>>, <<RecC, RecD, RecGDP>>,
     <<RecD, RecC>>}

\* batch objects at the numbers 0 .. MaxPages, one number more than any
\* total_batches
StoredBatches(f) ==
    [n \in {k \in DOMAIN f : f[k] # <<>>} |-> BatchObject(f[n])]

IndexInit ==
    /\ \E f \in [0 .. MaxPages -> StoredSeriesSet] : s3_batches = StoredBatches(f)
    /\ batch_number \in 0 .. MaxPages
    /\ s3_index \in {None, EarlierRun.index}
    /\ remote = [i \in 0 .. MaxPages - 1 |-> <<>>]
    /\ env = EnvOk
    /\ context = [has_remaining_time |-> FALSE]
    /\ tick = 390
    /\ event = EmptyEvent
    /\ pc = "index"
    /\ now = 1
    /\ start_time = 0
    /\ current_offset = batch_number * FRED_API_REQUEST_LIMIT
    /\ total_series_fetched = 0
    /\ important_series_count = 0
    /\ api_calls_count = 1
    /\ checkpoint = NewCheckpoint(1, current_offset, 0, 0, batch_number, TRUE, None)
    /\ elapsed_seconds = 0
    /\ lambda_time_remaining = None
    /\ execution_time = 1
    /\ s3_latest = <<checkpoint>>
    /\ s3_history = HistoryKey(checkpoint.timestamp) :> checkpoint
    /\ result = None
    /\ invocations = 1
    /\ fetchLog = <<[offset |-> current_offset, batch_number |-> batch_number]>>
    /\ writeLog = <<>>
    /\ saveLog = <<checkpoint>>
    /\ everLatest = {checkpoint}
    /\ storeFailures = 0
    /\ chainClean = TRUE
    /\ indexLog = None
    /\ series_data = EmptyEvent
    /\ classified = FALSE
    /\ verdict = FALSE

IndexNext == BuildIndex

IndexSpec == IndexInit /\ [][IndexNext]_vars

-----------------------------------------------------------------------------
(* Claims about the importance filter *)

HasField(sd, name) == name \in DOMAIN sd

\* C7 as stated: for every record whose observation_end is present and
\* lexicographically less than '2023-01-01', is_important_series returns
\* false whatever its popularity, frequency and id.
C7_VetoWhenPresentAndLess ==
    (/\ classified
     /\ HasField(series_data, "observation_end")
     /\ StrLess(series_data.observation_end, SERIES_DISCONTINUED_BEFORE_DATE))
    => verdict = FALSE

\* C7 amended: for every record whose observation_end is present, not the
\* empty string and lexicographically less than '2023-01-01',
\* is_important_series returns false whatever its popularity, frequency and id.
C7_VetoWhenNonEmptyAndLess ==
    (/\ classified
     /\ HasField(series_data, "observation_end")
     /\ series_data.observation_end # <<>>
     /\ StrLess(series_data.observation_end, SERIES_DISCONTINUED_BEFORE_DATE))
    => verdict = FALSE

\* a vetoed record that carries every positive signal
C7_Witness ==
    /\ classified
    /\ HasField(series_data, "observation_end")
    /\ series_data.observation_end = D_2022_12_31
    /\ HasField(series_data, "popularity") /\ series_data.popularity = 100
    /\ HasField(series_data, "frequency") /\ series_data.frequency = "Daily"
    /\ HasField(series_data, "id") /\ series_data.id = "GDP"
    /\ verdict = FALSE

\* C8: for every record that is not vetoed (observation_end absent, or not
\* less than the cutoff), is_important_series returns true if and only if
\* popularity > 50, or frequency is Daily, Weekly or Monthly, or id is in the
\* curated allow-list; an absent popularity counts as 0, an absent frequency
\* or id matches nothing.
C8_PositiveSignals ==
    (/\ classified
     /\ \/ ~HasField(series_data, "observation_end")
        \/ ~StrLess(series_data.observation_end, SERIES_DISCONTINUED_BEFORE_DATE))
    => (verdict <=>
          \/ (IF HasField(series_data, "popularity") THEN series_data.popularity ELSE 0) > 50
          \/ HasField(series_data, "frequency")
               /\ series_data.frequency \in {"Daily", "Weekly", "Monthly"}
          \/ HasField(series_data, "id") /\ series_data.id \in IMPORTANT_SERIES_IDS)

\* popularity exactly 50, no high frequency, no curated id, not vetoed
C8_Witness ==
    /\ classified
    /\ HasField(series_data, "observation_end")
    /\ series_data.observation_end = SERIES_DISCONTINUED_BEFORE_DATE
    /\ HasField(series_data, "popularity") /\ series_data.popularity = 50
    /\ HasField(series_data, "frequency") /\ series_data.frequency = "Annual"
    /\ HasField(series_data, "id") /\ series_data.id = "X1"
    /\ verdict = FALSE

-----------------------------------------------------------------------------
(* Reference notions the claims about the harvest loop are stated with *)

Last(seq) == seq[Len(seq)]

\* the page of the remote at page index i, empty past the data
RefPage(i) == IF i \in DOMAIN remote THEN remote[i] ELSE <<>>

RefPassing(page) == SelectSeq(page, is_important_series)

\* one uninterrupted run: the fetches, up to and including the first empty page
RECURSIVE RefFetches(_)
RefFetches(i) ==
    <<[offset |-> i * 1000, batch_number |-> i]>>
        \o (IF RefPage(i) = <<>> THEN <<>> ELSE RefFetches(i + 1))

\* one uninterrupted run: the batch objects written, in order
RECURSIVE RefWrites(_)
RefWrites(i) ==
    IF RefPage(i) = <<>> THEN <<>>
    ELSE (IF RefPassing(RefPage(i)) = <<>> THEN <<>>
          ELSE <<[batch_number |-> i,
                  data |-> [count |-> Len(RefPassing(RefPage(i))),
                            series |-> RefPassing(RefPage(i))]]>>)
         \o RefWrites(i + 1)

IsPrefix(a, b) == Len(a) <= Len(b) /\ SubSeq(b, 1, Len(a)) = a

\* records, and records passing the filter, of the pages of index below k
RECURSIVE RefFetchedBelow(_)
RefFetchedBelow(k) ==
    IF k <= 0 THEN 0 ELSE Len(RefPage(k - 1)) + RefFetchedBelow(k - 1)

RECURSIVE RefImportantBelow(_)
RefImportantBelow(k) ==
    IF k <= 0 THEN 0 ELSE Len(RefPassing(RefPage(k - 1))) + RefImportantBelow(k - 1)

Returned == result # None
HasCheckpoint(r) == "checkpoint" \in DOMAIN r
IsPaused(r) ==
    HasCheckpoint(r) /\ r.statusCode = 200 /\ ~r.checkpoint.execution_complete
IsFailed(r) == HasCheckpoint(r) /\ r.statusCode = 500
IsCompleted(r) ==
    HasCheckpoint(r) /\ r.statusCode = 200 /\ r.checkpoint.execution_complete

\* index in fetchLog of the first fetch of the current invocation
FirstFetchIndex == Len(fetchLog) - api_calls_count + 1

-----------------------------------------------------------------------------
(* Claims about resumption *)

\* C1: over a chain of invocations each of which but the last ended paused,
\* with no fetch or batch-write failure, the first fetch of a resumed
\* invocation uses the offset of the checkpoint it was given, and the fetched
\* offsets, the batch numbers and the batch objects written are those of one
\* uninterrupted run, in the same order: a prefix while the chain runs, the
\* whole of it when the chain has completed.
C1_ResumeEqualsUninterrupted ==
    chainClean =>
        /\ IsPrefix(fetchLog, RefFetches(0))
        /\ IsPrefix(writeLog, RefWrites(0))
        /\ (IsContinuation(event) /\ pc # "idle" /\ api_calls_count >= 1) =>
               fetchLog[FirstFetchIndex].offset = event.checkpoint.offset
        /\ (pc = "idle" /\ IsCompleted(result)) =>
               /\ fetchLog = RefFetches(0)
               /\ writeLog = RefWrites(0)
               /\ \A i \in 1 .. Len(writeLog) :
                     /\ writeLog[i].batch_number \in DOMAIN s3_batches
                     /\ s3_batches[writeLog[i].batch_number] = writeLog[i].data

\* a chain that paused after the first page, resumed at offset 1000 with
\* batch number 1 and completed, two batch objects written
C1_Witness ==
    /\ chainClean
    /\ pc = "idle"
    /\ IsCompleted(result)
    /\ IsContinuation(event)
    /\ event.checkpoint.offset = 1000
    /\ event.checkpoint.batch_number = 1
    /\ Len(writeLog) = 2
    /\ Len(fetchLog) = 3

\* C2 as stated: every checkpoint returned over a chain that started without
\* a checkpoint has total_fetched equal to the number of records of the pages
\* at offsets below its offset, and important_count equal to the number of
\* those records that pass the filter, each page counted once.
C2_CountersMatchPagesBelowOffset ==
    (Returned /\ HasCheckpoint(result)) =>
        LET cp == result.checkpoint
            k == cp.offset \div 1000
        IN  /\ cp.total_fetched = RefFetchedBelow(k)
            /\ cp.important_count = RefImportantBelow(k)

-----------------------------------------------------------------------------
(* Claims about one loop iteration *)

\* the step is a loop iteration in which the fetch or the batch write raised
IterationRaised == pc = "loop" /\ IsFailed(result')

\* C3: when the page fetch or the batch write raises in an iteration, the
\* invocation makes no further fetch, saves one checkpoint whose error string
\* embeds the current batch number and the cause, and returns a result with
\* statusCode 500 carrying that checkpoint; the checkpoint's offset and
\* batch_number are those at the start of the failed iteration, so that an
\* invocation started with it fetches the same offset again under the same
\* batch number.
C3_FailedIterationCheckpoint ==
    /\ [][IterationRaised =>
            /\ pc' = "idle"
            /\ Len(fetchLog') = Len(fetchLog) + 1
            /\ Len(saveLog') = Len(saveLog) + 1
            /\ LET cp == Last(saveLog')
               IN  /\ "error" \in DOMAIN cp
                   /\ cp.error.batch_number = batch_number
                   /\ cp.error.cause \in {"request failed", "put_object failed"}
                   /\ cp.offset = current_offset
                   /\ cp.batch_number = batch_number
                   /\ result'.statusCode = 500
                   /\ result'.checkpoint = cp
                   /\ result'.body.error = cp.error]_vars
    /\ [][(pc = "idle" /\ pc' = "loop" /\ IsFailed(result)) =>
            /\ current_offset' = result.checkpoint.offset
            /\ batch_number' = result.checkpoint.batch_number]_vars
    /\ [][(pc = "loop" /\ api_calls_count = 0 /\ fetchLog' # fetchLog
            /\ IsContinuation(event) /\ "error" \in DOMAIN event.checkpoint) =>
            /\ Len(fetchLog) >= 1
            /\ Last(fetchLog') = Last(fetchLog)
            /\ Last(fetchLog').offset = event.checkpoint.offset
            /\ Last(fetchLog').batch_number = event.checkpoint.batch_number]_vars

\* an invocation resumed from the checkpoint of a failed batch write has
\* fetched the failed offset again
C3_Witness ==
    /\ IsContinuation(event)
    /\ "error" \in DOMAIN event.checkpoint
    /\ event.checkpoint.error.cause = "put_object failed"
    /\ event.checkpoint.offset = 1000
    /\ api_calls_count = 1
    /\ Last(fetchLog) = [offset |-> 1000, batch_number |-> 1]

\* the step is a loop iteration that processed a page and goes on looping
IterationProcessedPage == pc = "loop" /\ pc' = "loop"

\* C4: for every non-empty page processed without error, the records that
\* pass the filter are written, in page order, as one batch object at the key
\* of the current batch_number if and only if at least one passes;
\* total_fetched grows by the page size, important_count by the number of
\* passing records, offset by 1000 whatever the page size, batch_number by 1.
C4_PageProcessing ==
    [][IterationProcessedPage =>
        LET page == RefPage(current_offset \div 1000)
            passing == RefPassing(page)
        IN  /\ page # <<>>
            /\ passing # <<>> =>
                  /\ batch_number \in DOMAIN s3_batches'
                  /\ s3_batches'[batch_number] =
                        [count |-> Len(passing), series |-> passing]
                  /\ \A n \in DOMAIN s3_batches' \ {batch_number} :
                        n \in DOMAIN s3_batches /\ s3_batches'[n] = s3_batches[n]
                  /\ writeLog' = Append(writeLog,
                        [batch_number |-> batch_number,
                         data |-> [count |-> Len(passing), series |-> passing]])
            /\ passing = <<>> => s3_batches' = s3_batches /\ writeLog' = writeLog
            /\ total_series_fetched' = total_series_fetched + Len(page)
            /\ important_series_count' = important_series_count + Len(passing)
            /\ current_offset' = current_offset + 1000
            /\ batch_number' = batch_number + 1]_vars

\* page 0 held GDP, X1 and X2 and page 1 held X2 alone: batch 0 is GDP and X1,
\* no batch 1, counters 4 and 2, offset 2000
C4_Witness ==
    /\ pc = "loop"
    /\ batch_number = 2
    /\ current_offset = 2000
    /\ total_series_fetched = 4
    /\ important_series_count = 2
    /\ DOMAIN s3_batches = {0}
    /\ s3_batches[0] = [count |-> 2, series |-> <<RecGDP, RecX1>>]

\* the step is a loop iteration whose fetch returned an empty page
IterationGotEmptyPage ==
    /\ pc = "loop"
    /\ fetchLog' # fetchLog
    /\ pc' # "idle"
    /\ RefPage(current_offset \div 1000) = <<>>

\* C5: an empty page ends the run as completed at once: no batch object is
\* written for that offset, the four counters are left unchanged, no further
\* fetch is made, and the checkpoint saved and returned has
\* execution_complete = true with those unchanged counters.
C5_EmptyPageCompletes ==
    /\ [][IterationGotEmptyPage =>
            /\ pc' = "finalize"
            /\ UNCHANGED <<current_offset, total_series_fetched,
                           important_series_count, batch_number,
                           s3_batches, writeLog, saveLog>>]_vars
    /\ [][(pc \in {"finalize", "index"}) =>
            /\ pc' \in {"index", "idle"}
            /\ UNCHANGED <<current_offset, total_series_fetched,
                           important_series_count, batch_number,
                           s3_batches, writeLog, fetchLog>>
            /\ pc = "finalize" =>
                  /\ Len(saveLog') = Len(saveLog) + 1
                  /\ Last(saveLog').execution_complete
                  /\ Last(saveLog').offset = current_offset
                  /\ Last(saveLog').total_fetched = total_series_fetched
                  /\ Last(saveLog').important_count = important_series_count
                  /\ Last(saveLog').batch_number = batch_number
            /\ pc = "index" =>
                  /\ saveLog' = saveLog
                  /\ IsCompleted(result')
                  /\ result'.checkpoint = Last(saveLog)]_vars
    /\ [](pc \in {"finalize", "index"} =>
            /\ fetchLog # <<>>
            /\ Last(fetchLog).offset = current_offset
            /\ RefPage(current_offset \div 1000) = <<>>)

\* the run completed on the empty page at offset 1000, after one page
C5_Witness ==
    /\ pc = "idle"
    /\ IsCompleted(result)
    /\ result.checkpoint.offset = 1000
    /\ result.checkpoint.batch_number = 1
    /\ result.checkpoint.total_fetched = 3
    /\ 1 \notin DOMAIN s3_batches
    /\ Last(fetchLog).offset = 1000

\* C6: the time-box check runs at the start of every iteration, the first
\* included, before any fetch: if the remaining-time signal is available and
\* below 30 s, or the elapsed time exceeds 13 minutes, the iteration makes no
\* fetch, saves a checkpoint with execution_complete = false and the counters
\* so far, and returns a result with statusCode 200 carrying it; otherwise the
\* iteration fetches; without the signal only the elapsed time can pause.
C6_TimeBox ==
    [][pc = "loop" =>
        /\ elapsed_seconds' = now - start_time
        /\ ~context.has_remaining_time => lambda_time_remaining' = None
        /\ IF \/ lambda_time_remaining' # None /\ lambda_time_remaining'[1] < 30000
              \/ elapsed_seconds' > 13 * 60
           THEN /\ fetchLog' = fetchLog
                /\ api_calls_count' = api_calls_count
                /\ s3_batches' = s3_batches
                /\ Len(saveLog') = Len(saveLog) + 1
                /\ Last(saveLog') =
                      [timestamp |-> Last(saveLog').timestamp,
                       offset |-> current_offset,
                       total_fetched |-> total_series_fetched,
                       important_count |-> important_series_count,
                       batch_number |-> batch_number,
                       execution_complete |-> FALSE]
                /\ result'.statusCode = 200
                /\ result'.checkpoint = Last(saveLog')
                /\ result'.body.message = PausedMessage
                /\ pc' = "idle"
           ELSE /\ Len(fetchLog') = Len(fetchLog) + 1
                /\ Last(fetchLog').offset = current_offset
                /\ ~IsPaused(result')]_vars

\* paused by the elapsed time alone, on a host without the signal
C6_Witness ==
    /\ pc = "idle"
    /\ IsPaused(result)
    /\ ~context.has_remaining_time
    /\ elapsed_seconds = 782
    /\ api_calls_count = 2

-----------------------------------------------------------------------------
(* Claims about the checkpoint manager *)

\* C9: create_checkpoint never raises because of a storage failure: whether
\* or not a write of the latest or of the history copy fails, it returns the
\* in-memory checkpoint with the offset, total_fetched, important_count,
\* batch_number, execution_complete (and error, when given) it was called
\* with, so that the paused, failed or completed result still carries it.
C9_CheckpointSurvivesStorageFailure ==
    (ConfigOk(env) /\ Returned) =>
        /\ HasCheckpoint(result)
        /\ saveLog # <<>>
        /\ result.checkpoint = Last(saveLog)
        /\ result.checkpoint.offset = current_offset
        /\ result.checkpoint.total_fetched = total_series_fetched
        /\ result.checkpoint.important_count = important_series_count
        /\ result.checkpoint.batch_number = batch_number
        /\ result.checkpoint.execution_complete = (result.statusCode = 200 /\ pc = "idle"
                                                    /\ "message" \in DOMAIN result.body
                                                    /\ result.body.message = CompletedMessage)
        /\ result.statusCode = 500 =>
              /\ "error" \in DOMAIN result.checkpoint
              /\ result.checkpoint.error = result.body.error
        /\ result.body.checkpoint = result.checkpoint

\* a failed result whose checkpoint could not be written at the latest key
C9_Witness ==
    /\ pc = "idle"
    /\ IsFailed(result)
    /\ storeFailures = 1
    /\ s3_latest = None
    /\ s3_history = EmptyEvent
    /\ result.checkpoint.important_count = 2

Range(f) == {f[k] : k \in DOMAIN f}

\* C10 as stated: every checkpoint save writes two copies with the same
\* content, one at the latest key and one at a timestamp-qualified history
\* key, so that after any sequence of saves the object at the latest key is
\* the most recently saved checkpoint and the history holds a copy of every
\* checkpoint that was ever stored at the latest key.
C10_TwoCopiesOnEverySave ==
    saveLog # <<>> =>
        /\ s3_latest = <<Last(saveLog)>>
        /\ \A cp \in everLatest : cp \in Range(s3_history)

\* the checkpoints of saveLog that reached the latest key, by position
StoredAtLatest == {i \in 1 .. Len(saveLog) : saveLog[i] \in everLatest}

\* C10 amended: every checkpoint save writes the latest copy first and the
\* history copy, with the same content and at the key made of its timestamp
\* with ':' replaced by '-', only when the latest copy was written; a failed
\* write is skipped silently.  After any sequence of saves the object at the
\* latest key is the most recent checkpoint whose latest write succeeded,
\* every history object was stored at the latest key, and when no write
\* failed the latest key holds the most recently saved checkpoint and the
\* history holds one copy of every checkpoint saved.
C10_TwoCopiesUnlessWriteFails ==
    /\ (s3_latest = None) <=> (everLatest = {})
    /\ s3_latest # None =>
          /\ StoredAtLatest # {}
          /\ s3_latest[1] =
                saveLog[CHOOSE i \in StoredAtLatest : \A j \in StoredAtLatest : j <= i]
    /\ \A k \in DOMAIN s3_history :
          /\ s3_history[k] \in everLatest
          /\ Len(k) = Len(s3_history[k].timestamp)
          /\ \A i \in 1 .. Len(k) :
                k[i] = IF s3_history[k].timestamp[i] = 58 THEN 45
                       ELSE s3_history[k].timestamp[i]
    /\ storeFailures = 0 =>
          /\ saveLog # <<>> => s3_latest = <<Last(saveLog)>>
          /\ \A i \in 1 .. Len(saveLog) : saveLog[i] \in Range(s3_history)
          /\ Cardinality(DOMAIN s3_history) = Len(saveLog)

\* two saves, no write failed: two history objects, the latest is the second
C10_Witness ==
    /\ Len(saveLog) = 2
    /\ storeFailures = 0
    /\ Cardinality(DOMAIN s3_history) = 2
    /\ s3_latest = <<saveLog[2]>>
    /\ saveLog[1] # saveLog[2]

-----------------------------------------------------------------------------
(* Claims about the completed path *)

\* C11: on the completed path the final checkpoint with execution_complete =
\* true is saved first, while the index is still untouched; then
\* create_series_index is called with the final batch_number as the exclusive
\* upper bound of the batches it reads; and whether reading batches or
\* writing the index fails or not, the result is a completed one (statusCode
\* 200) that carries the execution_complete = true checkpoint.
C11_CheckpointThenIndex ==
    /\ [][(pc = "finalize") =>
            /\ Len(saveLog') = Len(saveLog) + 1
            /\ Last(saveLog').execution_complete
            /\ Last(saveLog').batch_number = batch_number
            /\ s3_index' = s3_index
            /\ indexLog' = indexLog
            /\ indexLog = None
            /\ pc' = "index"
            /\ result' = None]_vars
    /\ [][(pc = "index") =>
            /\ saveLog' = saveLog
            /\ Last(saveLog).execution_complete
            /\ indexLog' # None
            /\ indexLog'[1].total_batches = Last(saveLog).batch_number
            /\ \A i \in 1 .. Len(indexLog'[1].read) :
                  indexLog'[1].read[i] < Last(saveLog).batch_number
            /\ ~indexLog'[1].written => s3_index' = s3_index
            /\ IsCompleted(result')
            /\ result'.statusCode = 200
            /\ result'.checkpoint = Last(saveLog)
            /\ result'.body.checkpoint = Last(saveLog)
            /\ pc' = "idle"]_vars

\* a completed result after an index build in which a batch could not be
\* read and the index could not be written
C11_Witness ==
    /\ pc = "idle"
    /\ IsCompleted(result)
    /\ indexLog # None
    /\ indexLog[1].total_batches = 2
    /\ 1 \in indexLog[1].skipped
    /\ 1 \in DOMAIN s3_batches
    /\ ~indexLog[1].written
    /\ s3_index = None

-----------------------------------------------------------------------------
(* Claims about the index builder *)

\* the records of the batches numbered n .. total-1 that were read, in the
\* order in which they are stored
RECURSIVE RefEncountered(_, _, _)
RefEncountered(n, total, skipped) ==
    IF n >= total THEN <<>>
    ELSE (IF n \in skipped THEN <<>> ELSE s3_batches[n].series)
         \o RefEncountered(n + 1, total, skipped)

\* number of positions of seq whose element satisfies field = value
CountWith(seq, field, value) ==
    Cardinality({i \in 1 .. Len(seq) : field \in DOMAIN seq[i] /\ seq[i][field] = value})

RefPopularity(r) == IF "popularity" \in DOMAIN r THEN r.popularity ELSE 0

\* C12: create_series_index(total_batches) reads the batches 0 ..
\* total_batches - 1 in increasing order, skips the missing and unreadable
\* ones without failing, and writes one index object, replacing any earlier
\* one, with exactly one entry per record of the readable batches
\* (duplicates kept) and a count equal to that number of records.
C12_IndexHoldsReadableRecords ==
    [][(pc = "index") =>
        LET log == indexLog'[1]
            total == log.total_batches
            stored == RefEncountered(0, total, log.skipped)
        IN  /\ indexLog' # None
            /\ total = batch_number
            /\ Len(log.read) = total
            /\ \A i \in 1 .. total : log.read[i] = i - 1
            /\ \A n \in 0 .. total - 1 : n \notin DOMAIN s3_batches => n \in log.skipped
            /\ s3_batches' = s3_batches
            /\ pc' = "idle"
            /\ IsCompleted(result')
            /\ log.written =>
                  /\ Len(s3_index') = 1
                  /\ s3_index'[1].count = Len(stored)
                  /\ Len(s3_index'[1].series) = Len(stored)
                  /\ \A i \in 1 .. Len(stored) :
                        /\ CountWith(s3_index'[1].series, "id", stored[i].id)
                               = CountWith(stored, "id", stored[i].id)
                        /\ \E j \in 1 .. Len(stored) :
                              /\ s3_index'[1].series[j].id = stored[i].id
                              /\ s3_index'[1].series[j].popularity = RefPopularity(stored[i])
            /\ ~log.written => s3_index' = s3_index]_vars

\* an index written from batches 0 and 1, batch 1 not readable and batch 2
\* not read: the two records of batch 0, the same record twice
C12_Witness ==
    /\ pc = "idle"
    /\ indexLog # None
    /\ indexLog[1].written
    /\ indexLog[1].total_batches = 2
    /\ indexLog[1].skipped = {1}
    /\ DOMAIN s3_batches = {0, 1, 2}
    /\ s3_batches[0].series = <<RecA, RecA>>
    /\ s3_index # EarlierRun.index
    /\ s3_index[1].count = 2

\* the ids of the elements of seq whose popularity (0 when absent) is v, in
\* the order of seq
IdsWithPopularity(seq, v) ==
    LET HasV(r) == RefPopularity(r) = v
        sel == SelectSeq(seq, HasV)
    IN  [i \in 1 .. Len(sel) |-> sel[i].id]

\* C13: the records of the written index are sorted by popularity in
\* descending order, an absent popularity counting as 0, and records of
\* equal popularity appear in the order in which they were encountered: by
\* increasing batch number, then by position inside the batch.
C13_SortedDescendingAndStable ==
    [][(pc = "index" /\ indexLog'[1].written) =>
        LET series == s3_index'[1].series
            stored == RefEncountered(0, indexLog'[1].total_batches, indexLog'[1].skipped)
        IN  /\ \A i \in 1 .. Len(series) - 1 :
                  series[i].popularity >= series[i + 1].popularity
            /\ \A i \in 1 .. Len(stored) :
                  IdsWithPopularity(series, RefPopularity(stored[i]))
                      = IdsWithPopularity(stored, RefPopularity(stored[i]))]_vars

\* batch 0 holds B then A (both 60), batch 1 holds D (0) then C (no
\* popularity): the index is B, A, D, C
C13_Witness ==
    /\ pc = "idle"
    /\ indexLog # None
    /\ indexLog[1].written
    /\ indexLog[1].total_batches = 2
    /\ indexLog[1].skipped = {}
    /\ s3_batches[0].series = <<RecB, RecA>>
    /\ s3_batches[1].series = <<RecD, RecC>>
    /\ [i \in 1 .. 4 |-> s3_index[1].series[i].id] = <<"B", "A", "D", "C">>

-----------------------------------------------------------------------------
(* Claims about the outcomes of an invocation *)

\* C14: if any of the API key, the storage bucket or the storage prefix is
\* absent or empty, the invocation returns an error result (statusCode 500)
\* at once: no fetch is made, no batch, checkpoint or index object is
\* written, and the result carries no checkpoint.
C14_ConfigurationErrorFailsFast ==
    [][(/\ pc = "idle"
        /\ invocations' # invocations
        /\ \E v \in {"FRED_API_KEY", "S3_BUCKET_NAME", "S3_PREFIX"} :
              v \notin DOMAIN env \/ env[v] = "") =>
        /\ result' # None
        /\ result'.statusCode = 500
        /\ "checkpoint" \notin DOMAIN result'
        /\ "checkpoint" \notin DOMAIN result'.body
        /\ "error" \in DOMAIN result'.body
        /\ pc' = "idle"
        /\ UNCHANGED <<fetchLog, api_calls_count, s3_batches, writeLog, s3_latest,
                       s3_history, saveLog, s3_index, indexLog>>]_vars

\* an empty bucket name: two invocations, each refused, nothing fetched or
\* stored
C14_Witness ==
    /\ "S3_BUCKET_NAME" \in DOMAIN env
    /\ env.S3_BUCKET_NAME = ""
    /\ invocations = 2
    /\ pc = "idle"
    /\ result # None
    /\ result.statusCode = 500
    /\ "checkpoint" \notin DOMAIN result
    /\ result.body.error.var_name = "S3_BUCKET_NAME"
    /\ fetchLog = <<>>
    /\ s3_batches = EmptyEvent
    /\ s3_latest = None

\* the three tags a result can bear
TaggedPaused(r) ==
    r.statusCode = 200 /\ "message" \in DOMAIN r.body /\ r.body.message = PausedMessage
TaggedFailed(r) == r.statusCode = 500 /\ "error" \in DOMAIN r.body
TaggedCompleted(r) ==
    r.statusCode = 200 /\ "message" \in DOMAIN r.body /\ r.body.message = CompletedMessage

\* C15: every invocation that passed configuration validation and returned
\* bears exactly one of the tags paused, failed, completed, and its result
\* carries a checkpoint whose offset, total_fetched, important_count and
\* batch_number are the in-memory counters at the moment of return; a failed
\* result carries them together with the error string.
C15_EveryOutcomeCarriesCounters ==
    (ConfigOk(env) /\ pc = "idle" /\ invocations >= 1) =>
        /\ result # None
        /\ "statusCode" \in DOMAIN result
        /\ Cardinality({t \in {"paused", "failed", "completed"} :
                \/ t = "paused" /\ TaggedPaused(result)
                \/ t = "failed" /\ TaggedFailed(result)
                \/ t = "completed" /\ TaggedCompleted(result)}) = 1
        /\ "checkpoint" \in DOMAIN result
        /\ result.checkpoint.offset = current_offset
        /\ result.checkpoint.total_fetched = total_series_fetched
        /\ result.checkpoint.important_count = important_series_count
        /\ result.checkpoint.batch_number = batch_number
        /\ TaggedFailed(result) =>
              /\ "error" \in DOMAIN result.checkpoint
              /\ result.checkpoint.error = result.body.error
              /\ "checkpoint" \in DOMAIN result.body
              /\ result.body.checkpoint = result.checkpoint
        /\ ~TaggedFailed(result) => "error" \notin DOMAIN result.checkpoint

\* a fetch failed at offset 1000, after page 0 with its three records was
\* processed: the failed result carries offset 1000, 3 fetched, 2 important
C15_Witness ==
    /\ pc = "idle"
    /\ result # None
    /\ TaggedFailed(result)
    /\ "checkpoint" \in DOMAIN result
    /\ result.body.error.cause = "request failed"
    /\ current_offset = 1000
    /\ result.checkpoint.offset = 1000
    /\ result.checkpoint.total_fetched = 3
    /\ result.checkpoint.important_count = 2
    /\ result.checkpoint.batch_number = 1

\* C16: a checkpoint with execution_complete = true is saved only after a
\* fetch of the same invocation returned an empty page; the checkpoints
\* saved on the timeout path and on the error path have execution_complete
\* = false; no checkpoint has both execution_complete = true and an error.
C16_CompleteOnlyAfterEmptyPage ==
    /\ [][(saveLog' # saveLog /\ Last(saveLog').execution_complete) =>
            /\ pc = "finalize"
            /\ api_calls_count >= 1
            /\ Len(fetchLog) >= api_calls_count
            /\ Last(fetchLog).offset = current_offset
            /\ RefPage(current_offset \div 1000) = <<>>]_vars
    /\ [][(pc = "loop" /\ saveLog' # saveLog) =>
            /\ saveLog' = Append(saveLog, Last(saveLog'))
            /\ ~Last(saveLog').execution_complete
            /\ result' # None
            /\ result'.checkpoint = Last(saveLog')
            /\ (result'.statusCode = 200) <=> ("error" \notin DOMAIN Last(saveLog'))]_vars
    /\ [](\A i \in 1 .. Len(saveLog) :
            ~(saveLog[i].execution_complete /\ "error" \in DOMAIN saveLog[i]))

\* a chain that saved an error checkpoint, resumed, met the empty page and
\* saved the execution_complete = true checkpoint
C16_Witness ==
    /\ pc = "index"
    /\ Len(saveLog) >= 2
    /\ "error" \in DOMAIN saveLog[Len(saveLog) - 1]
    /\ ~saveLog[Len(saveLog) - 1].execution_complete
    /\ Last(saveLog).execution_complete
    /\ "error" \notin DOMAIN Last(saveLog)
    /\ IsContinuation(event)

-----------------------------------------------------------------------------
(* Claims about progress inside an invocation *)

\* C17 as stated: each iteration that processes a non-empty page saves a
\* checkpoint with the advanced counters after the page's passing records
\* are persisted and before the next fetch, so that, as long as no
\* checkpoint write failed, the checkpoint at the latest key accounts for
\* every batch the chain persisted in completed iterations.
C17_CheckpointAfterEveryPage ==
    /\ [][IterationProcessedPage =>
            /\ Len(saveLog') = Len(saveLog) + 1
            /\ Last(saveLog').offset = current_offset'
            /\ Last(saveLog').batch_number = batch_number'
            /\ Last(saveLog').total_fetched = total_series_fetched'
            /\ Last(saveLog').important_count = important_series_count']_vars
    /\ []((pc = "loop" /\ storeFailures = 0 /\ writeLog # <<>>) =>
            /\ s3_latest # None
            /\ s3_latest[1] = Last(saveLog)
            /\ \A i \in 1 .. Len(writeLog) :
                  writeLog[i].batch_number < s3_latest[1].batch_number)

\* the offset and the batch number an invocation started from
StartOf(ev, field) ==
    IF "checkpoint" \in DOMAIN ev /\ ev.checkpoint # EmptyEvent
    THEN ev.checkpoint[field] ELSE 0

\* C19: offset and batch_number advance in lockstep: throughout an
\* invocation and in every checkpoint it saves, offset - offset_at_start =
\* 1000 * (batch_number - batch_number_at_start); over a chain that starts
\* without a checkpoint and resumes from returned checkpoints, every
\* checkpoint has offset = 1000 * batch_number and every batch object
\* written has a number strictly below the batch_number of a checkpoint
\* returned after it.
C19_OffsetAndBatchNumberInLockstep ==
    /\ (ConfigOk(env) /\ invocations >= 1) =>
          /\ current_offset - StartOf(event, "offset")
                = 1000 * (batch_number - StartOf(event, "batch_number"))
          /\ batch_number >= StartOf(event, "batch_number")
          /\ current_offset = 1000 * batch_number
    /\ \A i \in 1 .. Len(saveLog) :
          saveLog[i].offset = 1000 * saveLog[i].batch_number
    /\ (result # None /\ "checkpoint" \in DOMAIN result) =>
          /\ result.checkpoint.offset = 1000 * result.checkpoint.batch_number
          /\ result.checkpoint.offset - StartOf(event, "offset")
                = 1000 * (result.checkpoint.batch_number - StartOf(event, "batch_number"))
          /\ \A i \in 1 .. Len(writeLog) :
                writeLog[i].batch_number < result.checkpoint.batch_number
    /\ \A i \in 1 .. Len(writeLog) : writeLog[i].batch_number < batch_number

\* resumed from offset 1000 and batch number 1, the invocation wrote batch 1
\* and returned a checkpoint with offset 2000 and batch number 2
C19_Witness ==
    /\ pc = "idle"
    /\ result # None
    /\ "checkpoint" \in DOMAIN result
    /\ StartOf(event, "offset") = 1000
    /\ StartOf(event, "batch_number") = 1
    /\ result.checkpoint.offset = 2000
    /\ result.checkpoint.batch_number = 2
    /\ Len(writeLog) = 2
    /\ writeLog[2].batch_number = 1

-----------------------------------------------------------------------------
(* Claims about what the index of a completed run holds *)

\* C20 as stated: the index written by a completed run contains only records
\* that the chain of invocations of this logical run persisted; when the
\* prefix already holds batch objects of an earlier run, also at batch
\* numbers for which this run wrote nothing, none of the earlier run's
\* records appear in the index.
C20_IndexHoldsOnlyThisRunsRecords ==
    (/\ pc = "idle"
     /\ IsCompleted(result)
     /\ indexLog # None
     /\ indexLog[1].written) =>
        \A k \in 1 .. Len(s3_index[1].series) :
            \E i \in 1 .. Len(writeLog) :
                \E j \in 1 .. Len(writeLog[i].data.series) :
                    /\ writeLog[i].data.series[j].id = s3_index[1].series[k].id
                    /\ writeLog[i].data.series[j].popularity
                          = s3_index[1].series[k].popularity

-----------------------------------------------------------------------------
(* Claims about termination *)

\* C18: every invocation that passed configuration validation eventually
\* returns, provided every fetch, storage call and pause returns: the loop
\* goes on to a next iteration only while the elapsed time is at most the
\* ceiling of 13 minutes and the page was not empty, the clock advances with
\* every such iteration, and an invocation that is running leads to one that
\* has returned a result, even when the remote never returns an empty page.
C18_InvocationReturns ==
    /\ [][(pc = "loop" /\ pc' = "loop") =>
            /\ now - start_time <= 13 * 60
            /\ now' > now
            /\ PageAt(remote, current_offset) # <<>>
            /\ result' = None]_vars
    /\ [][(pc = "loop" /\ now - start_time > 13 * 60) =>
            pc' = "idle" /\ result' # None /\ fetchLog' = fetchLog]_vars
    /\ (pc # "idle") ~> (pc = "idle" /\ result # None /\ "statusCode" \in DOMAIN result)

\* a remote without empty page, a host without remaining-time signal: the
\* invocation processed three pages and returned paused by the elapsed time
C18_Witness ==
    /\ Beyond \in DOMAIN remote
    /\ ~context.has_remaining_time
    /\ pc = "idle"
    /\ IsPaused(result)
    /\ api_calls_count = 3
    /\ current_offset = 3000
    /\ elapsed_seconds > 780

====
